---- MODULE Spec2Model ----
(***************************************************************************)
(* Model of the constructor chat endpoint of Neuro-Seller                  *)
(* (backend/app/api/v1/constructor.py, constructor_chat) together with the *)
(* process-wide conversations dictionary and the users/agents tables.      *)
(*                                                                         *)
(* constructor_chat is an async handler running on one event loop: a       *)
(* request runs without interruption until it awaits                       *)
(* extract_info_from_website or chat_completion; other requests run only   *)
(* while it is suspended there.  The variable running holds the slot that  *)
(* owns the event loop (0 when every request is suspended or finished).    *)
(***************************************************************************)
EXTENDS Integers, Sequences, FiniteSets, TLC

\* ------------------------------------------------------------------ bounds
MaxSlots == 2     \* requests that can be in flight at the same time
MaxReq   == 2     \* requests received in one behaviour

\* ------------------------------------------------------------ input domains
UserIds == {"u1"}

\* Contents a client sends.  "hi" is plain text, "urls" carries two URLs,
\* "upd" carries an update keyword ("обнови агента"), "tag" carries the
\* literal text [CURRENT_AGENT_DATA].
UserContents == {"hi", "urls", "upd", "tag"}

\* Texts the completion capability returns.
Replies == {"plain", "ready", "update", "update_malformed", "update_badjson",
            "ready_and_update"}

\* What extract_info_from_website returns.
ExtractResults == {"error", "json_strings", "json_objects", "no_json"}

\* The message lists a request carries: each content alone, a repeated
\* message, and a URL in a message that is not the last one.
RequestMessages ==
    {<<"hi">>, <<"urls">>, <<"upd">>, <<"tag">>, <<"hi", "hi">>, <<"urls", "hi">>}

\* ------------------------------------------------------------- JSON values
\* A value of a knowledge base as json.loads builds it.  Every value is a
\* record [t, s, items]: t is the Python type, s the text of a str (or the
\* key of a dict entry), items the elements of a list or the entries of a
\* dict in insertion order.
JNull == [t |-> "null", s |-> "", items |-> <<>>]
JStr(x) == [t |-> "str", s |-> x, items |-> <<>>]
JNum(x) == [t |-> "num", s |-> x, items |-> <<>>]
JList(xs) == [t |-> "list", s |-> "", items |-> xs]
Pair(k, v) == [t |-> "pair", s |-> k, items |-> <<v>>]
JDict(pairs) == [t |-> "dict", s |-> "", items |-> pairs]

\* isinstance(v, list), isinstance(v, dict)
IsList(v) == v.t = "list"
IsDict(v) == v.t = "dict"

\* bool(v): None, "", [] and {} are false.
Truthy(v) ==
    IF v.t = "null" THEN FALSE
    ELSE IF v.t = "str" THEN v.s # ""
    ELSE IF v.t = "num" THEN v.s # "0"
    ELSE v.items # <<>>

\* str(v): a str is itself, a number its digits, None is "None"; the repr
\* of a list or of a dict is kept as one text.
PyStr(v) ==
    IF v.t \in {"str", "num"} THEN JStr(v.s)
    ELSE IF v.t = "null" THEN JStr("None")
    ELSE IF v.t = "list" THEN JStr("[...]")
    ELSE JStr("{...}")

\* key in d
HasKey(d, k) == \E i \in DOMAIN d.items : d.items[i].s = k

KeyIndex(d, k) == CHOOSE i \in DOMAIN d.items : d.items[i].s = k

\* d.get(k, default)
DictGet(d, k, default) ==
    IF HasKey(d, k) THEN d.items[KeyIndex(d, k)].items[1] ELSE default

\* d[k] = v: an existing key keeps its position, a new key goes last.
DictSet(d, k, v) ==
    IF HasKey(d, k)
    THEN [d EXCEPT !.items[KeyIndex(d, k)] = Pair(k, v)]
    ELSE [d EXCEPT !.items = Append(@, Pair(k, v))]

\* d.update(e)
RECURSIVE DictUpdateFrom(_, _)
DictUpdateFrom(d, entries) ==
    IF entries = <<>> THEN d
    ELSE DictUpdateFrom(DictSet(d, Head(entries).s, Head(entries).items[1]),
                        Tail(entries))

DictUpdate(d, e) == DictUpdateFrom(d, e.items)

\* d == e for dicts: the same keys with the same values, in any order.
DictEq(d, e) ==
    {d.items[i] : i \in DOMAIN d.items} = {e.items[i] : i \in DOMAIN e.items}

\* The keys of a dict.
Keys(d) == {d.items[i].s : i \in DOMAIN d.items}

\* Russian texts are written in Latin transliteration ("uslugi" stands
\* for the key spelled with Cyrillic letters in the source).
\* key.lower().strip() on the keys and names used here; every other text
\* is lower case without surrounding blanks already.
LowerStrip(x) ==
    CASE x = "Uslugi" -> "uslugi"
      [] x = "USLUGI" -> "uslugi"
      [] x = " Tseny " -> "tseny"
      [] x = "Kontakty" -> "kontakty"
      [] x = "Style" -> "style"
      [] x = "Persona_Info" -> "persona_info"
      [] x = "Services" -> "services"
      [] x = "Notes" -> "notes"
      [] x = "Haircut" -> "haircut"
      [] x = "Anna" -> "anna"
      [] OTHER -> x

\* ------------------------------------------------------ knowledge bases
\* key_mapping of normalize_knowledge_base.
key_mapping ==
    ("uslugi" :> "services") @@ ("tovary" :> "services") @@
    ("tseny" :> "prices") @@ ("kontakty" :> "contacts") @@
    ("o kompanii" :> "about") @@ ("opisanie" :> "about") @@
    ("sajt" :> "website") @@ ("stil" :> "style") @@ ("faq" :> "faq") @@
    ("chastye voprosy" :> "faq") @@ ("persona agenta" :> "persona_info") @@
    ("persona" :> "persona_info")

\* EnglishKey without the lookup in key_mapping.
EnglishKey_NoMapping(key) == LowerStrip(key)

\* key_mapping.get(key_lower, key_lower)
EnglishKey(key) ==
    LET key_lower == LowerStrip(key)
    IN  IF key_lower \in DOMAIN key_mapping THEN key_mapping[key_lower]
        ELSE key_lower

\* {"name": name, "price": price}
Service(name, price) == JDict(<<Pair("name", name), Pair("price", price)>>)

DefaultPrice == JStr("tsena po zaprosu")

\* NormalizeServices wrapping every item of a list, dict items included.
NormalizeServices_WrapAll(value) ==
    IF IsDict(value)
    THEN JList([i \in DOMAIN value.items |->
                  Service(JStr(value.items[i].s), value.items[i].items[1])])
    ELSE IF IsList(value)
    THEN JList([i \in DOMAIN value.items |->
                  Service(PyStr(value.items[i]), DefaultPrice)])
    ELSE JList(<<Service(PyStr(value), DefaultPrice)>>)

\* The services branch: a dict becomes the list of its entries as
\* {name, price}, a list keeps its dict items and wraps the others, any
\* other value becomes a one-entry list.
NormalizeServices(value) ==
    IF IsDict(value)
    THEN JList([i \in DOMAIN value.items |->
                  Service(JStr(value.items[i].s), value.items[i].items[1])])
    ELSE IF IsList(value)
    THEN JList([i \in DOMAIN value.items |->
                  IF IsDict(value.items[i]) THEN value.items[i]
                  ELSE Service(PyStr(value.items[i]), DefaultPrice)])
    ELSE JList(<<Service(PyStr(value), DefaultPrice)>>)

\* The prices branch: a dict is kept, anything else becomes {"obshchee": str}.
NormalizePrices(value) ==
    IF IsDict(value) THEN value ELSE JDict(<<Pair("obshchee", PyStr(value))>>)

\* The loop over raw_kb.items(), entries taken in insertion order.
RECURSIVE NormalizeEntries(_, _)
NormalizeEntries(entries, normalized) ==
    IF entries = <<>> THEN normalized
    ELSE LET value == Head(entries).items[1]
             english_key == EnglishKey(Head(entries).s)
         IN  NormalizeEntries(Tail(entries),
                IF english_key = "services"
                THEN DictSet(normalized, "services", NormalizeServices(value))
                ELSE IF english_key = "prices"
                THEN DictSet(normalized, "prices", NormalizePrices(value))
                ELSE IF english_key \in {"style", "persona_info"}
                THEN normalized
                ELSE DictSet(normalized, english_key, value))

normalize_knowledge_base(raw_kb) == NormalizeEntries(raw_kb.items, JDict(<<>>))

\* The loop over ["business_type", "website", "about"].
RECURSIVE MergeSimple(_, _, _)
MergeSimple(merged, new_data, keys) ==
    IF keys = <<>> THEN merged
    ELSE MergeSimple(IF Truthy(DictGet(new_data, Head(keys), JNull))
                     THEN DictSet(merged, Head(keys), DictGet(new_data, Head(keys), JNull))
                     ELSE merged,
                     new_data, Tail(keys))

\* The services and faq blocks: two lists are concatenated, otherwise the
\* new value replaces the old one.
MergeList(merged, new_data, key) ==
    IF Truthy(DictGet(new_data, key, JNull))
    THEN LET old_list == DictGet(merged, key, JList(<<>>))
             new_list == DictGet(new_data, key, JNull)
         IN  IF IsList(old_list) /\ IsList(new_list)
             THEN DictSet(merged, key, JList(old_list.items \o new_list.items))
             ELSE DictSet(merged, key, new_list)
    ELSE merged

\* The prices and contacts blocks: two dicts are combined by dict.update,
\* otherwise the new value replaces the old one.
MergeDict(merged, new_data, key) ==
    IF Truthy(DictGet(new_data, key, JNull))
    THEN LET old_dict == DictGet(merged, key, JDict(<<>>))
             new_dict == DictGet(new_data, key, JNull)
         IN  IF IsDict(old_dict) /\ IsDict(new_dict)
             THEN DictSet(merged, key, DictUpdate(old_dict, new_dict))
             ELSE DictSet(merged, key, new_dict)
    ELSE merged

\* f"{old_raw}\n\n{new_raw}".strip()
RawJoin(old_raw, new_raw) ==
    IF PyStr(old_raw).s = "" THEN PyStr(new_raw)
    ELSE JStr(PyStr(old_raw).s \o "\n\n" \o PyStr(new_raw).s)

\* The raw_data block.
MergeRaw(merged, new_data) ==
    IF Truthy(DictGet(new_data, "raw_data", JNull))
    THEN DictSet(merged, "raw_data",
                 RawJoin(DictGet(merged, "raw_data", JStr("")),
                         DictGet(new_data, "raw_data", JNull)))
    ELSE merged

\* merge_knowledge_bases taking every key of the new data.
merge_knowledge_bases_TakesAll(old_kb, new_data) == DictUpdate(old_kb, new_data)

\* The dict merge_knowledge_bases returns.
merge_knowledge_bases(old_kb, new_data) ==
    LET m1 == MergeSimple(old_kb, new_data, <<"business_type", "website", "about">>)
        m2 == MergeList(m1, new_data, "services")
        m3 == MergeDict(m2, new_data, "prices")
        m4 == MergeDict(m3, new_data, "contacts")
        m5 == MergeList(m4, new_data, "faq")
    IN  MergeRaw(m5, new_data)

\* old_kb.copy() is shallow: the dict under key that merged holds is the
\* object old_kb holds, and old_dict.update(new_dict) changes it in place.
UpdatedInPlace(old_kb, new_data, key) ==
    IF /\ Truthy(DictGet(new_data, key, JNull))
       /\ HasKey(old_kb, key)
       /\ IsDict(DictGet(old_kb, key, JNull))
       /\ IsDict(DictGet(new_data, key, JNull))
    THEN DictSet(old_kb, key,
                 DictUpdate(DictGet(old_kb, key, JNull), DictGet(new_data, key, JNull)))
    ELSE old_kb

\* The value of the object passed as old_kb once merge_knowledge_bases has
\* returned.
OldAfterMerge(old_kb, new_data) ==
    UpdatedInPlace(UpdatedInPlace(old_kb, new_data, "prices"), new_data, "contacts")

Slots == 1..MaxSlots

NoAgent == [id |-> 0, knowledge_base |-> JDict(<<>>)]
NoResponse == [status |-> 0, agent_created |-> FALSE, agent_updated |-> FALSE, agent_id |-> 0]

VARIABLES
    users,          \* ids of the rows of the users table
    agents,         \* agents table: id -> [user_id, knowledge_base]
    conversations,  \* conversations dict: key -> sequence of turns
    req,            \* per slot: the locals of the request running in it
    running,        \* slot that owns the event loop, 0 if none
    nreq,           \* requests received so far
    cleared,        \* keys cleared by a create/update with no request begun since
    fn_input,       \* arguments of the function under study (function specs)
    fn_output,      \* what its calls returned and left behind
    fn_step         \* calls made so far; "off" in the handler specs

\* The variables of the function specs; the handler leaves them alone.
fn_vars == <<fn_input, fn_output, fn_step>>

\* The variables of the handler; the function specs leave them alone.
handler_vars == <<users, agents, conversations, req, running, nreq, cleared>>

vars == <<users, agents, conversations, req, running, nreq, cleared,
          fn_input, fn_output, fn_step>>

\* ------------------------------------------------------------- turns, texts
Message(role, content) == [role |-> role, content |-> content, ref |-> 0]

\* The literal META_AGENT_PROMPT system turn.
META_AGENT_PROMPT == [role |-> "system", content |-> "meta_agent_prompt", ref |-> 0]

\* re.findall(r'https?://[^\s]+', text): the URLs of a text, in order.
FindAllUrls(content) ==
    IF content = "urls" THEN <<1, 2>> ELSE <<>>

\* any(keyword in last_message for keyword in update_keywords)
HasUpdateKeyword(content) == content = "upd"

\* "[CURRENT_AGENT_DATA]" in msg.get("content", "")
HasAgentDataTag(turn) == turn.content \in {"agent_context", "tag"}

IsPrefix(s, t) == Len(s) <= Len(t) /\ SubSeq(t, 1, Len(s)) = s

Range(s) == {s[i] : i \in DOMAIN s}

\* ------------------------------------------------------ request-local state
IdleReq ==
    [pc |-> "idle", user_id |-> "", agent_id |-> 0, req_messages |-> <<>>,
     update_mode |-> FALSE, existing_agent |-> NoAgent,
     conversation_key |-> <<"", 0>>, messages |-> <<>>,
     response |-> NoResponse, outcome |-> "none",
     added |-> <<>>, after_clear |-> FALSE,
     extract_calls |-> 0, extract_url |-> 0, website_data |-> "none",
     result |-> "none", commit_ok |-> FALSE]

\* --------------------------------------------------- users and agents (db)
\* The columns of the User model (app/models/user.py).
UserColumns ==
    {"id", "email", "password_hash", "telegram_id", "plan", "tokens_limit",
     "tokens_used", "created_at", "updated_at"}

\* The keyword arguments of User(...) in constructor_chat.
NewUserFields ==
    {"id", "email", "plan", "credits_balance", "status", "created_at", "updated_at"}

\* User(**kwargs) raises TypeError for a keyword that is no attribute of
\* the model; the handler turns it into HTTP 500.
EnsureUserRaises(us, user_id) ==
    user_id \notin us /\ ~(NewUserFields \subseteq UserColumns)

\* db.query(User)...first(); if not user: db.add(user); db.commit()
EnsureUser(us, user_id) ==
    IF EnsureUserRaises(us, user_id) THEN us ELSE us \cup {user_id}

AgentsOf(ags, user_id) == {a \in DOMAIN ags : ags[a].user_id = user_id}

\* id of a row inserted now; rows are numbered in creation order, so the
\* greatest id is the row with the latest created_at.
NewAgentId(ags) == Cardinality(DOMAIN ags) + 1

\* db.query(Agent).filter(Agent.id == agent_id, Agent.user_id == user_id).first()
FindAgent(ags, agent_id, user_id) ==
    IF agent_id \in AgentsOf(ags, user_id)
    THEN [id |-> agent_id, knowledge_base |-> ags[agent_id].knowledge_base]
    ELSE NoAgent

\* db.query(Agent).filter(Agent.user_id == user_id)
\*   .order_by(Agent.created_at.desc()).first()
LatestAgent(ags, user_id) ==
    IF AgentsOf(ags, user_id) = {} THEN NoAgent
    ELSE LET a == CHOOSE x \in AgentsOf(ags, user_id) :
                      \A y \in AgentsOf(ags, user_id) : y <= x
         IN  [id |-> a, knowledge_base |-> ags[a].knowledge_base]

\* _create_agent_logic (POST /agents/create): the user is looked up and a
\* missing one is answered with 404 "User not found".
CreateAgentRejected(us, user_id) == user_id \notin us

\* last_message = request.messages[-1].content.lower() if request.messages else ""
LastContent(msgs) == IF msgs = <<>> THEN "" ELSE msgs[Len(msgs)].content

\* The mode decision of constructor_chat: the agent to update (NoAgent in
\* create mode) and whether the request is rejected with 404.
ModeOf(ags, user_id, agent_id, msgs) ==
    IF agent_id # 0
    THEN LET e == FindAgent(ags, agent_id, user_id)
         IN  [not_found |-> e = NoAgent, update_mode |-> e # NoAgent,
              existing_agent |-> e, agent_id |-> agent_id]
    ELSE IF HasUpdateKeyword(LastContent(msgs))
         THEN LET e == LatestAgent(ags, user_id)
              IN  [not_found |-> FALSE, update_mode |-> e # NoAgent,
                   existing_agent |-> e, agent_id |-> e.id]
         ELSE [not_found |-> FALSE, update_mode |-> FALSE,
               existing_agent |-> NoAgent, agent_id |-> 0]

\* ConversationKey leaving the agent out of the key.
ConversationKey_UserOnly(user_id, agent_id) == <<user_id, 0>>

\* conversation_key = f"{user_id}:{agent_id}" if agent_id else user_id
ConversationKey(user_id, agent_id) == <<user_id, agent_id>>

\* conversations[key] after "if conversation_key not in conversations"
HistoryOf(conv, key) == IF key \in DOMAIN conv THEN conv[key] ELSE <<>>

SetHistory(conv, key, hist) ==
    [k \in DOMAIN conv \cup {key} |-> IF k = key THEN hist ELSE conv[k]]

\* AppendNew adding each new message at the front of the history.
RECURSIVE AppendNew_AtFront(_, _)
AppendNew_AtFront(hist, msgs) ==
    IF msgs = <<>> THEN hist
    ELSE AppendNew_AtFront(IF Head(msgs) \in Range(hist) THEN hist
                           ELSE <<Head(msgs)>> \o hist,
                           Tail(msgs))

\* for msg in request.messages:
\*     if msg_dict not in conversations[key]: conversations[key].append(msg_dict)
RECURSIVE AppendNew(_, _)
AppendNew(hist, msgs) ==
    IF msgs = <<>> THEN hist
    ELSE AppendNew(IF Head(msgs) \in Range(hist) THEN hist
                   ELSE Append(hist, Head(msgs)),
                   Tail(msgs))

\* The [CURRENT_AGENT_DATA] system turn built from existing_agent.
AgentContextTurn(existing_agent) ==
    [role |-> "system", content |-> "agent_context", ref |-> existing_agent.id]

\* if not any("[CURRENT_AGENT_DATA]" in msg.get("content", "") for msg in history):
\*     history.insert(0, {"role": "system", "content": agent_context})
InsertContext(hist, update_mode, existing_agent) ==
    IF update_mode /\ existing_agent # NoAgent
       /\ ~ \E i \in DOMAIN hist : HasAgentDataTag(hist[i])
    THEN <<AgentContextTurn(existing_agent)>> \o hist
    ELSE hist

\* The [ИНФОРМАЦИЯ С САЙТА url] system turn.
SiteInfoTurn(url) == [role |-> "system", content |-> "site_info", ref |-> url]

\* "error" not in website_data
HasNoError(website_data) == website_data # "error"

\* ', '.join(website_data.get('services', [])) raises TypeError when an
\* entry of services is not a string.
SiteInfoRaises(website_data) == website_data = "json_objects"

\* BuildMessages sending only the latest turn of the history.
BuildMessages_LastTurnOnly(hist) ==
    <<META_AGENT_PROMPT>> \o (IF hist = <<>> THEN <<>> ELSE <<hist[Len(hist)]>>)

\* messages = [{"role": "system", "content": META_AGENT_PROMPT}] + conversations[key]
BuildMessages(hist) == <<META_AGENT_PROMPT>> \o hist

\* ------------------------------------------------ protocol blocks of a reply
NoData ==
    [ok |-> FALSE, agent_name |-> "", business_type |-> "",
     knowledge_base |-> JDict(<<>>)]

\* A knowledge base holding the one service name at price.
OneService(name, price) ==
    JDict(<<Pair("services", JList(<<Service(JStr(name), JStr(price))>>))>>)

\* The services list of a knowledge base ([] when it has none).
ServicesOf(kb) == DictGet(kb, "services", JList(<<>>)).items

\* The DATA object of the ---AGENT-READY--- block of the replies.
ReadyData == OneService("haircut", "1000")

\* A reply is a sequence of words: in the text they stand one blank apart,
\* and the word "\n" is a line break.  The markers, the labels and the
\* braces of the DATA object are words of their own; "kv" stands for the
\* members of a JSON object and "word" for any other text.
READY_MARKER == "---AGENT-READY---"
UPDATE_MARKER == "---AGENT-UPDATE---"

\* The words in which the regular expression "---" finds a match.
DashWords == {"---", READY_MARKER, UPDATE_MARKER}

MinOf(S) == CHOOSE x \in S : \A y \in S : x <= y

\* The first position from from on holding one of the words, 0 when there
\* is none.
FirstIn(text, from, words) ==
    LET found == {i \in from..Len(text) : text[i] \in words}
    IN  IF found = {} THEN 0 ELSE MinOf(found)

\* The first position from from on holding a word (not a line break), 0
\* when there is none.
FirstWord(text, from) ==
    LET found == {i \in from..Len(text) : text[i] # "\n"}
    IN  IF found = {} THEN 0 ELSE MinOf(found)

\* str.strip() on a text: the line breaks at both ends are dropped.
RECURSIVE StripText(_)
StripText(text) ==
    IF text = <<>> THEN text
    ELSE IF Head(text) = "\n" THEN StripText(Tail(text))
    ELSE IF text[Len(text)] = "\n" THEN StripText(SubSeq(text, 1, Len(text) - 1))
    ELSE text

\* The text of a sequence of words.
RECURSIVE JoinWords(_)
JoinWords(text) ==
    IF text = <<>> THEN ""
    ELSE IF Len(text) = 1 THEN text[1]
    ELSE text[1] \o " " \o JoinWords(Tail(text))

\* re.search(r"---AGENT-READY---(.*?)---", text, re.DOTALL): the words
\* between the first marker and the next run of three dashes.
ReadyBlock(text) ==
    LET start == FirstIn(text, 1, {READY_MARKER})
        stop == FirstIn(text, start + 1, DashWords)
    IN  IF start = 0 \/ stop = 0 THEN [found |-> FALSE, content |-> <<>>]
        ELSE [found |-> TRUE,
              content |-> StripText(SubSeq(text, start + 1, stop - 1))]

\* re.search(label + r"\s*(\S+)"): the positions of a label that is
\* followed, line breaks skipped, by a word.
LabelMatches(content, label) ==
    {k \in DOMAIN content :
        content[k] = label /\ FirstWord(content, k + 1) # 0}

\* NAME:\s*(\S+), then .strip().lower()
NameOfBlock(content) ==
    LET k == MinOf(LabelMatches(content, "NAME:"))
    IN  LowerStrip(content[FirstWord(content, k + 1)])

\* TYPE:\s*([^\n]+?)(?:\n|DATA:|$) and the re.sub that drops "DATA:..."
\* from the group: the words after the label up to the line break, the
\* DATA label or the end.
TypeOfBlock(content) ==
    LET k == MinOf(LabelMatches(content, "TYPE:"))
        first == FirstWord(content, k + 1)
        stop == FirstIn(content, first, {"\n", "DATA:"})
    IN  JoinWords(SubSeq(content, first,
                         IF stop = 0 THEN Len(content) ELSE stop - 1))

\* DATA:\s*(\{.+?\})\s*(?:\n|$): after the label and line breaks an opening
\* brace, then the shortest text ending in a closing brace that a line
\* break or the end of the block follows.
DataMatches(content) ==
    {k \in DOMAIN content :
        /\ content[k] = "DATA:"
        /\ LET open == FirstWord(content, k + 1)
           IN  /\ open # 0
               /\ content[open] = "{"
               /\ \E close \in (open + 1)..Len(content) :
                     /\ content[close] = "}"
                     /\ close = Len(content) \/ content[close + 1] = "\n"}

DataOfBlock(content) ==
    LET k == MinOf(DataMatches(content))
        open == FirstWord(content, k + 1)
        close == MinOf({c \in (open + 1)..Len(content) :
                          /\ content[c] = "}"
                          /\ c = Len(content) \/ content[c + 1] = "\n"})
    IN  SubSeq(content, open, close)

\* The nesting depth after the words of data_str.
RECURSIVE Depth(_)
Depth(data_str) ==
    IF data_str = <<>> THEN 0
    ELSE LET w == data_str[Len(data_str)]
         IN  Depth(SubSeq(data_str, 1, Len(data_str) - 1))
                + (IF w = "{" THEN 1 ELSE IF w = "}" THEN -1 ELSE 0)

\* The nesting depth of the lists ("[", "]") after the words of data_str.
RECURSIVE ListDepth(_)
ListDepth(data_str) ==
    IF data_str = <<>> THEN 0
    ELSE LET w == data_str[Len(data_str)]
         IN  ListDepth(SubSeq(data_str, 1, Len(data_str) - 1))
                + (IF w = "[" THEN 1 ELSE IF w = "]" THEN -1 ELSE 0)

\* json.loads(data_str) succeeds: the text is one object, its braces and
\* brackets balanced, with nothing but members, objects, lists and line
\* breaks inside.
IsJson(data_str) ==
    /\ Len(data_str) >= 2
    /\ Depth(data_str) = 0
    /\ ListDepth(data_str) = 0
    /\ \A i \in 1..(Len(data_str) - 1) :
           Depth(SubSeq(data_str, 1, i)) > 0 /\ ListDepth(SubSeq(data_str, 1, i)) >= 0
    /\ \A i \in DOMAIN data_str : data_str[i] \in {"{", "}", "[", "]", "kv", "\n"}

\* The try/except around json.loads: the normalized object, or the text kept
\* under raw_data when it is not JSON.
KnowledgeBaseOfData(data_str) ==
    IF IsJson(data_str) THEN normalize_knowledge_base(ReadyData)
    ELSE JDict(<<Pair("raw_data", JStr(JoinWords(data_str)))>>)

\* parse_agent_ready_response: the agent data of the ---AGENT-READY---
\* block of the text, None (NoData) when the marker, the block, NAME, TYPE
\* or DATA is not found.
parse_agent_ready_response(response_text) ==
    LET block == ReadyBlock(response_text)
    IN  IF ~block.found THEN NoData
        ELSE IF LabelMatches(block.content, "NAME:") = {} THEN NoData
        ELSE IF LabelMatches(block.content, "TYPE:") = {} THEN NoData
        ELSE IF DataMatches(block.content) = {} THEN NoData
        ELSE [ok |-> TRUE,
              agent_name |-> NameOfBlock(block.content),
              business_type |-> TypeOfBlock(block.content),
              knowledge_base |-> KnowledgeBaseOfData(DataOfBlock(block.content))]

\* data_str = data_match.group(1).strip(): the DATA text the parser of the
\* ready block isolates, empty when it does not get that far.
ReadyDataStr(response_text) ==
    LET block == ReadyBlock(response_text)
    IN  IF /\ block.found
           /\ LabelMatches(block.content, "NAME:") # {}
           /\ LabelMatches(block.content, "TYPE:") # {}
           /\ DataMatches(block.content) # {}
        THEN DataOfBlock(block.content)
        ELSE <<>>

\* The well-formed blocks of the replies.
ReadyBlockText ==
    <<READY_MARKER, "\n", "NAME:", "Anna", "\n", "TYPE:", "salon", "\n",
      "DATA:", "{", "kv", "}", "\n", "---">>

UpdateBlockText == <<UPDATE_MARKER, "\n", "DATA:", "{", "kv", "}", "\n", "---">>

\* The text of each reply of Replies: "update_malformed" has the marker
\* and no DATA label, in "update_badjson" the braces of DATA do not balance.
ReplyText(reply) ==
    IF reply = "ready" THEN <<"word", "\n">> \o ReadyBlockText
    ELSE IF reply = "ready_and_update"
    THEN ReadyBlockText \o <<"\n">> \o UpdateBlockText
    ELSE IF reply = "plain" THEN <<"word">>
    ELSE IF reply = "failure" THEN <<>>
    ELSE IF reply = "update_malformed"
    THEN <<"word", "\n", UPDATE_MARKER, "\n", "{", "kv", "}", "\n", "---">>
    ELSE IF reply = "update_badjson"
    THEN <<"word", "\n", UPDATE_MARKER, "\n", "DATA:", "{", "kv", "}", "}",
           "\n", "---">>
    ELSE <<"word", "\n">> \o UpdateBlockText

\* agent_data = parse_agent_ready_response(response_text) for each reply
\* ("failure": chat_completion raised and there is no text).
AgentDataOfReply ==
    [reply \in Replies \cup {"failure"} |->
        parse_agent_ready_response(ReplyText(reply))]

\* re.search(r"---AGENT-UPDATE---(.*?)---", text, re.DOTALL), stripped.
UpdateBlock(text) ==
    LET start == FirstIn(text, 1, {UPDATE_MARKER})
        stop == FirstIn(text, start + 1, DashWords)
    IN  IF start = 0 \/ stop = 0 THEN [found |-> FALSE, content |-> <<>>]
        ELSE [found |-> TRUE,
              content |-> StripText(SubSeq(text, start + 1, stop - 1))]

\* re.search(r"DATA:\s*(.+)", update_content, re.DOTALL), stripped: all
\* that follows the first DATA label that has text after it.
UpdateDataStr(content) ==
    LET found == {k \in DOMAIN content :
                     content[k] = "DATA:" /\ FirstWord(content, k + 1) # 0}
    IN  IF found = {} THEN [found |-> FALSE, data_str |-> <<>>]
        ELSE [found |-> TRUE,
              data_str |-> StripText(SubSeq(content, MinOf(found) + 1, Len(content)))]

\* re.search(r'\{.*\}', data_str, re.DOTALL): from the first opening brace
\* to the last closing brace behind it.
UpdateJsonStr(data_str) ==
    LET open == FirstIn(data_str, 1, {"{"})
        closes == {c \in DOMAIN data_str : c > open /\ data_str[c] = "}"}
    IN  IF open = 0 \/ closes = {} THEN [found |-> FALSE, json_str |-> <<>>]
        ELSE [found |-> TRUE,
              json_str |-> SubSeq(data_str, open,
                                  CHOOSE c \in closes : \A d \in closes : d <= c)]

\* The nested re.search calls and json.loads of the update branch on a
\* text: status "no_match" when a search fails, "raises" when json.loads
\* fails, "ok" otherwise; json_str is the text handed to json.loads.
parse_update_block(text) ==
    LET block == UpdateBlock(text)
        data == UpdateDataStr(block.content)
        json == UpdateJsonStr(data.data_str)
    IN  IF ~block.found \/ ~data.found \/ ~json.found
        THEN [status |-> "no_match", json_str |-> <<>>]
        ELSE [status |-> IF IsJson(json.json_str) THEN "ok" ELSE "raises",
              json_str |-> json.json_str]

\* The update block of each reply.
UpdateOfReply ==
    [reply \in Replies \cup {"failure"} |-> parse_update_block(ReplyText(reply))]

\* "---AGENT-UPDATE---" in response_text
HasUpdateMarker(response_text) ==
    \E i \in DOMAIN ReplyText(response_text) :
        ReplyText(response_text)[i] = UPDATE_MARKER

\* The nested re.search calls and json.loads of the update branch:
\* "no_match" when a search fails, "raises" when json.loads fails,
\* "ok" with the payload otherwise.
ParseUpdateBlock(response_text) == UpdateOfReply[response_text].status

\* json.loads of the DATA object of the ---AGENT-UPDATE--- block.
UpdatePayload(response_text) == OneService("manicure", "500")

\* ShouldCreate with the mode test inverted.
ShouldCreate_InUpdateMode(agent_data, update_mode) == agent_data.ok /\ update_mode

\* if agent_data and not update_mode:
ShouldCreate(agent_data, update_mode) == agent_data.ok /\ ~update_mode

\* ShouldUpdate looking at the marker only.
ShouldUpdate_MarkerOnly(response_text, update_mode, existing_agent) ==
    HasUpdateMarker(response_text)

\* if "---AGENT-UPDATE---" in response_text and update_mode and existing_agent:
ShouldUpdate(response_text, update_mode, existing_agent) ==
    HasUpdateMarker(response_text) /\ update_mode /\ existing_agent # NoAgent

\* The path constructor_chat takes once chat_completion has returned
\* result ("failure" when it raised) and the commit succeeds or not.
CompletionOutcome(r, result, commit_ok) ==
    IF result = "failure" THEN "completion_failed"
    ELSE IF ShouldCreate(AgentDataOfReply[result], r.update_mode)
         THEN (IF commit_ok THEN "created" ELSE "persist_failed")
    ELSE IF ShouldUpdate(result, r.update_mode, r.existing_agent)
            /\ ParseUpdateBlock(result) # "no_match"
         THEN (IF ParseUpdateBlock(result) = "raises" THEN "update_parse_error"
               ELSE IF commit_ok THEN "updated" ELSE "persist_failed")
    ELSE "continued"

\* {"role": "assistant", "content": response_text}.  A stored reply is never
\* read again except by the [CURRENT_AGENT_DATA] test, and no reply of
\* Replies carries that tag, so the stored text is kept as one token.
AssistantTurn(response_text) == [role |-> "assistant", content |-> "reply", ref |-> 0]

\* HistoryAfterCompletion clearing the history before the commit.
HistoryAfterCompletion_ClearBeforeCommit(hist, outcome, result) ==
    IF outcome \in {"created", "updated", "persist_failed"} THEN <<>>
    ELSE IF outcome = "continued" THEN Append(hist, AssistantTurn(result))
    ELSE hist

\* conversations[key] when the request returns: cleared after a committed
\* create/update, the reply appended on the continue path, untouched when
\* the request fails.
HistoryAfterCompletion(hist, outcome, result) ==
    IF outcome \in {"created", "updated"} THEN <<>>
    ELSE IF outcome = "continued"
         THEN Append(hist, AssistantTurn(result))
    ELSE hist

\* The agents table when the request returns.
AgentsAfterCompletion(ags, r, outcome, result) ==
    IF outcome = "created"
    THEN [a \in DOMAIN ags \cup {NewAgentId(ags)} |->
            IF a \in DOMAIN ags THEN ags[a]
            ELSE [user_id |-> r.user_id,
                  knowledge_base |-> AgentDataOfReply[result].knowledge_base]]
    ELSE IF outcome = "updated"
    THEN [ags EXCEPT ![r.existing_agent.id].knowledge_base =
            merge_knowledge_bases(r.existing_agent.knowledge_base, UpdatePayload(result))]
    ELSE ags

\* ConstructorChatResponse, or the HTTPException raised instead.
ResponseOf(ags, r, outcome) ==
    IF outcome = "created"
    THEN [status |-> 200, agent_created |-> TRUE, agent_updated |-> FALSE,
          agent_id |-> NewAgentId(ags)]
    ELSE IF outcome = "updated"
    THEN [status |-> 200, agent_created |-> FALSE, agent_updated |-> TRUE,
          agent_id |-> r.existing_agent.id]
    ELSE IF outcome = "continued"
    THEN [status |-> 200, agent_created |-> FALSE, agent_updated |-> FALSE,
          agent_id |-> r.agent_id]
    ELSE [status |-> 500, agent_created |-> FALSE, agent_updated |-> FALSE,
          agent_id |-> 0]

\* ------------------------------------------------------------------ actions
\* The process starts with an empty conversations dict; the database is
\* empty (first deployment) or holds a user with one agent (a restart).
Init ==
    /\ \/ users = {} /\ agents = <<>>
       \/ /\ users = {"u1"}
          /\ agents = <<[user_id |-> "u1", knowledge_base |-> OneService("haircut", "1000")]>>
    /\ conversations = <<>>
    /\ req = [s \in Slots |-> IdleReq]
    /\ running = 0
    /\ nreq = 0
    /\ cleared = {}
    /\ fn_input = <<>>
    /\ fn_output = <<>>
    /\ fn_step = "off"

\* Lines 232-291: the request of user_id for agent_id (0: none) with the
\* given messages arrives; the user row is ensured (creating it may raise)
\* and the mode (create, update, 404) is decided.
ReceiveRequest(s, limit, user_id, agent_id, contents) ==
    /\ running = 0
    /\ req[s].pc = "idle"
    /\ \A t \in Slots : t < s => req[t].pc # "idle"
    /\ nreq < limit
    /\ LET msgs == [i \in DOMAIN contents |-> Message("user", contents[i])]
           m == ModeOf(agents, user_id, agent_id, msgs)
       IN  /\ users' = EnsureUser(users, user_id)
           /\ IF EnsureUserRaises(users, user_id)
              THEN req' = [req EXCEPT ![s] =
                        [IdleReq EXCEPT !.pc = "done", !.user_id = user_id,
                           !.agent_id = agent_id, !.req_messages = msgs,
                           !.outcome = "user_error",
                           !.response = [NoResponse EXCEPT !.status = 500]]]
              ELSE IF m.not_found
              THEN req' = [req EXCEPT ![s] =
                        [IdleReq EXCEPT !.pc = "done", !.user_id = user_id,
                           !.agent_id = agent_id, !.req_messages = msgs,
                           !.outcome = "not_found",
                           !.response = [NoResponse EXCEPT !.status = 404]]]
              ELSE req' = [req EXCEPT ![s] =
                        [IdleReq EXCEPT !.pc = "append", !.user_id = user_id,
                           !.agent_id = m.agent_id, !.req_messages = msgs,
                           !.update_mode = m.update_mode,
                           !.existing_agent = m.existing_agent,
                           !.conversation_key = ConversationKey(user_id, m.agent_id)]]
    /\ running' = s
    /\ nreq' = nreq + 1
    /\ UNCHANGED <<agents, conversations, cleared, fn_vars>>

\* A request of one of the clients arrives.
ReceiveUpTo(s, limit) ==
    \E user_id \in UserIds, agent_id \in 0..NewAgentId(agents),
       contents \in RequestMessages :
        ReceiveRequest(s, limit, user_id, agent_id, contents)

Receive(s) == ReceiveUpTo(s, MaxReq)

\* Lines 297-306: the history of the key is created if missing and the
\* incoming messages are appended.
AppendMessages(s) ==
    /\ running = s
    /\ req[s].pc = "append"
    /\ LET key == req[s].conversation_key
           old == HistoryOf(conversations, key)
           new == AppendNew(old, req[s].req_messages)
       IN  /\ conversations' = SetHistory(conversations, key, new)
           /\ req' = [req EXCEPT ![s].pc = "context",
                                 ![s].added = SubSeq(new, Len(old) + 1, Len(new)),
                                 ![s].after_clear = key \in cleared]
           /\ cleared' = cleared \ {key}
    /\ UNCHANGED <<users, agents, running, nreq, fn_vars>>

\* Lines 312-350: in update mode the agent context turn is inserted.
AddContext(s) ==
    /\ running = s
    /\ req[s].pc = "context"
    /\ LET key == req[s].conversation_key
           old == conversations[key]
           new == InsertContext(old, req[s].update_mode, req[s].existing_agent)
       IN  /\ conversations' = SetHistory(conversations, key, new)
           /\ req' = [req EXCEPT ![s].pc = "url",
                                 ![s].added = IF new = old THEN @
                                              ELSE <<new[1]>> \o @]
    /\ UNCHANGED <<users, agents, running, nreq, cleared, fn_vars>>

\* Lines 356-365: URLs of the last message; with a URL the request awaits
\* extract_info_from_website(urls[0]).
CheckUrl(s) ==
    /\ running = s
    /\ req[s].pc = "url"
    /\ LET urls == FindAllUrls(LastContent(req[s].req_messages))
       IN  IF urls # <<>>
           THEN /\ req' = [req EXCEPT ![s].pc = "extract_wait",
                                      ![s].extract_calls = @ + 1,
                                      ![s].extract_url = urls[1]]
                /\ running' = 0
           ELSE /\ req' = [req EXCEPT ![s].pc = "build"]
                /\ running' = s
    /\ UNCHANGED <<users, agents, conversations, nreq, cleared, fn_vars>>

\* Lines 365-394: extract_info_from_website returns; the site turn is
\* appended unless the result carries "error"; building the turn may raise.
ExtractReturn(s) ==
    /\ running = 0
    /\ req[s].pc = "extract_wait"
    /\ \E website_data \in ExtractResults :
        LET key == req[s].conversation_key
            turn == SiteInfoTurn(req[s].extract_url)
        IN  IF ~HasNoError(website_data)
            THEN /\ req' = [req EXCEPT ![s].pc = "build",
                                       ![s].website_data = website_data]
                 /\ running' = s
                 /\ UNCHANGED conversations
            ELSE IF SiteInfoRaises(website_data)
            THEN /\ req' = [req EXCEPT ![s].pc = "done",
                                       ![s].website_data = website_data,
                                       ![s].outcome = "site_info_error",
                                       ![s].response = [NoResponse EXCEPT !.status = 500]]
                 /\ running' = s
                 /\ UNCHANGED conversations
            ELSE /\ req' = [req EXCEPT ![s].pc = "build",
                                       ![s].website_data = website_data,
                                       ![s].added = Append(@, turn)]
                 /\ running' = s
                 /\ conversations' = SetHistory(conversations, key,
                                        Append(conversations[key], turn))
    /\ UNCHANGED <<users, agents, nreq, cleared, fn_vars>>

\* Lines 400-408: the prompt is assembled and chat_completion is awaited.
BuildPrompt(s) ==
    /\ running = s
    /\ req[s].pc = "build"
    /\ req' = [req EXCEPT ![s].pc = "completion_wait",
                          ![s].website_data = "none",
                          ![s].messages = BuildMessages(conversations[req[s].conversation_key])]
    /\ running' = 0
    /\ UNCHANGED <<users, agents, conversations, nreq, cleared, fn_vars>>

\* Lines 408-541: chat_completion returns or raises; the reply is parsed and
\* the agent is created or updated, or the reply is appended.
CompletionReturn(s) ==
    /\ running = 0
    /\ req[s].pc = "completion_wait"
    /\ \E result \in Replies \cup {"failure"}, commit_ok \in BOOLEAN :
        LET r == req[s]
            key == r.conversation_key
            outcome == CompletionOutcome(r, result, commit_ok)
        IN  /\ conversations' = SetHistory(conversations, key,
                   HistoryAfterCompletion(conversations[key], outcome, result))
            /\ agents' = AgentsAfterCompletion(agents, r, outcome, result)
            /\ req' = [req EXCEPT ![s].pc = "done", ![s].outcome = outcome,
                                  ![s].result = result,
                                  ![s].commit_ok = commit_ok,
                                  ![s].response = ResponseOf(agents, r, outcome)]
            /\ cleared' = IF outcome \in {"created", "updated"}
                          THEN cleared \cup {key} ELSE cleared
    /\ running' = s
    /\ UNCHANGED <<users, nreq, fn_vars>>

\* The response has been sent; the slot is free for the next request.
Respond(s) ==
    /\ running = s
    /\ req[s].pc = "done"
    /\ req' = [req EXCEPT ![s] = IdleReq]
    /\ running' = 0
    /\ UNCHANGED <<users, agents, conversations, nreq, cleared, fn_vars>>

Next ==
    \E s \in Slots :
        \/ Receive(s)
        \/ AppendMessages(s)
        \/ AddContext(s)
        \/ CheckUrl(s)
        \/ ExtractReturn(s)
        \/ BuildPrompt(s)
        \/ CompletionReturn(s)
        \/ Respond(s)

Spec == Init /\ [][Next]_vars

\* The same program observed for one more request.
ReceiveDeep(s) == ReceiveUpTo(s, MaxReq + 1)

NextDeep ==
    \E s \in Slots :
        \/ ReceiveDeep(s)
        \/ AppendMessages(s)
        \/ AddContext(s)
        \/ CheckUrl(s)
        \/ ExtractReturn(s)
        \/ BuildPrompt(s)
        \/ CompletionReturn(s)
        \/ Respond(s)

SpecDeep == Init /\ [][NextDeep]_vars

\* ------------------------------------------------------------------- claims
\* The request in slot s has appended to its key's history and has not
\* finished.
InProgress(s) ==
    req[s].pc \in {"context", "url", "extract_wait", "build", "completion_wait"}

\* chat_completion returned or raised for slot s in this step.
Returned(s) == req[s].pc = "completion_wait" /\ req'[s].pc = "done"

\* The history of slot s's key before and after the step.
HistBefore(s) == HistoryOf(conversations, req[s].conversation_key)
HistAfter(s) == HistoryOf(conversations', req[s].conversation_key)

IsAgentContext(turn) == turn.role = "system" /\ turn.content = "agent_context"

\* C1: for any session key at most one request is in progress at a time: no
\* two requests that have appended to the same key's history are unfinished
\* together, so no two completion calls for one key are in flight.
C1_OneRequestPerKey ==
    \A s, t \in Slots :
        (s # t /\ InProgress(s) /\ InProgress(t))
            => req[s].conversation_key # req[t].conversation_key

\* C2: when the commit of a create or of an update fails after the reply was
\* parsed as ready/update, the request fails with 500 and the key's history
\* is exactly what it was before the persistence attempt.
C2_PersistFailureKeepsHistory ==
    [][\A s \in Slots :
          (/\ Returned(s)
           /\ req'[s].result \in Replies
           /\ ~req'[s].commit_ok
           /\ \/ AgentDataOfReply[req'[s].result].ok /\ ~req[s].update_mode
              \/ /\ req[s].update_mode
                 /\ HasUpdateMarker(req'[s].result)
                 /\ ParseUpdateBlock(req'[s].result) = "ok")
          => /\ req'[s].response.status = 500
             /\ HistAfter(s) = HistBefore(s)
             /\ conversations' = conversations]_vars

C2_Witness ==
    \E s \in Slots :
        /\ req[s].pc = "done"
        /\ req[s].outcome = "persist_failed"
        /\ req[s].response.status = 500
        /\ Len(conversations[req[s].conversation_key]) >= 2

\* C3: when the completion call fails the request returns an error, the
\* key's history still contains every message of the request and no
\* assistant turn (no turn at all) was added by the failing step.
C3_CompletionFailureKeepsUserMessages ==
    [][\A s \in Slots :
          (Returned(s) /\ req'[s].result = "failure")
          => /\ req'[s].response.status = 500
             /\ HistAfter(s) = HistBefore(s)
             /\ \A i \in DOMAIN req[s].req_messages :
                    req[s].req_messages[i] \in Range(HistAfter(s))]_vars

\* C4: after a request that created or updated an agent the key's history is
\* empty, and the prompt of the next request on that key is the
\* meta-instruction followed by the turns that request added itself.
C4_FreshPromptAfterClear ==
    \A s \in Slots :
        /\ (req[s].pc = "done" /\ req[s].outcome \in {"created", "updated"})
              => conversations[req[s].conversation_key] = <<>>
        /\ (req[s].pc = "completion_wait" /\ req[s].after_clear)
              => req[s].messages = <<META_AGENT_PROMPT>> \o req[s].added

C6_OneContextTurnFirst ==
    [][\A s \in Slots :
          (req[s].pc = "context" /\ req'[s].pc = "url" /\ req[s].update_mode)
          => /\ HistAfter(s) # <<>>
             /\ IsAgentContext(HistAfter(s)[1])
             /\ Cardinality({i \in DOMAIN HistAfter(s) :
                                IsAgentContext(HistAfter(s)[i])}) = 1]_vars

\* C7: the append step grows the history by one turn per incoming message.
C7_OneTurnPerMessage ==
    [][\A s \in Slots :
          (req[s].pc = "append" /\ req'[s].pc = "context")
          => Len(HistAfter(s)) = Len(HistBefore(s)) + Len(req[s].req_messages)]_vars

\* Some request clears the history of key k in this step.
ClearsKey(k) ==
    \E s \in Slots :
        /\ Returned(s)
        /\ req[s].conversation_key = k
        /\ req'[s].outcome \in {"created", "updated"}

\* C8 (as stated): between two clears every step leaves the turns held
\* before it as a prefix of the new history.
C8_AppendOnly ==
    [][\A k \in DOMAIN conversations' :
          ~ClearsKey(k)
          => IsPrefix(HistoryOf(conversations, k), conversations'[k])]_vars

\* C8 (amended): between two clears every step keeps the turns held before
\* it unchanged, in order and contiguous: it appends at the end, or it
\* inserts the update-mode [CURRENT_AGENT_DATA] turn in front of them.
C8_AppendOrContextInFront ==
    [][\A k \in DOMAIN conversations' :
          ~ClearsKey(k)
          => \/ IsPrefix(HistoryOf(conversations, k), conversations'[k])
             \/ /\ conversations'[k] # <<>>
                /\ IsAgentContext(conversations'[k][1])
                /\ Tail(conversations'[k]) = HistoryOf(conversations, k)]_vars

C8_Witness ==
    \E k \in DOMAIN conversations :
        /\ Len(conversations[k]) >= 3
        /\ IsAgentContext(conversations[k][1])
        /\ conversations[k][2].role = "user"
        /\ conversations[k][Len(conversations[k])].role = "assistant"

\* C9: the turn list handed to chat_completion is the meta-instruction turn
\* followed by the key's history as it is when the call is made.
C9_PromptIsMetaPlusHistory ==
    [][\A s \in Slots :
          (req[s].pc = "build" /\ req'[s].pc = "completion_wait")
          => /\ req'[s].messages = <<META_AGENT_PROMPT>> \o HistAfter(s)
             /\ HistAfter(s) = HistBefore(s)]_vars

C9_Witness ==
    \E s \in Slots :
        /\ req[s].pc = "completion_wait"
        /\ Len(req[s].messages) >= 4
        /\ req[s].messages = <<META_AGENT_PROMPT>> \o conversations[req[s].conversation_key]

\* C10: the extractor is called at most once per request, only when the last
\* message has a URL and then with its first URL; after a successful
\* extraction exactly one system turn has been appended, behind the user's
\* message, and the request goes on to the completion call.
C10_OneExtractionOneSiteTurn ==
    [][\A s \in Slots :
          /\ req'[s].extract_calls <= 1
          /\ (req'[s].extract_calls = 1)
                => /\ FindAllUrls(LastContent(req'[s].req_messages)) # <<>>
                   /\ req'[s].extract_url =
                         FindAllUrls(LastContent(req'[s].req_messages))[1]
          /\ (/\ req[s].pc = "extract_wait"
              /\ req'[s].pc # "extract_wait"
              /\ req'[s].website_data \in {"json_strings", "json_objects"})
                => /\ req'[s].pc = "build"
                   /\ HistAfter(s) = Append(HistBefore(s), SiteInfoTurn(req[s].extract_url))
                   /\ \E i \in DOMAIN HistBefore(s) :
                         HistBefore(s)[i] = req[s].req_messages[Len(req[s].req_messages)]]_vars

\* C11: when extract_info_from_website returns a failure the request goes on
\* to the completion call (no exception reaches the handler), no turn is
\* appended to the history, and the prompt is the meta-instruction followed
\* by the history, which contains every message of the request.
C11_ExtractorFailureIsNonFatal ==
    [][\A s \in Slots :
          /\ (req[s].pc = "extract_wait" /\ req'[s].website_data = "error")
             => /\ req'[s].pc = "build"
                /\ conversations' = conversations
          /\ (/\ req[s].pc = "build"
              /\ req[s].website_data = "error"
              /\ req'[s].pc = "completion_wait")
             => /\ req'[s].messages = <<META_AGENT_PROMPT>> \o HistBefore(s)
                /\ \A i \in DOMAIN req[s].req_messages :
                       req[s].req_messages[i] \in Range(HistBefore(s))]_vars

\* C12: site parsing never blocks the conversation: whatever
\* extract_info_from_website returns, the request goes on to the completion
\* call and does not fail; a response with no JSON object in it injects no
\* scraped context into the history.
C12_SiteParsingNeverBlocks ==
    [][\A s \in Slots :
          (req[s].pc = "extract_wait" /\ req'[s].pc # "extract_wait")
          => /\ req'[s].pc = "build"
             /\ req'[s].response.status = 0
             /\ req'[s].website_data = "no_json" => conversations' = conversations]_vars

\* ------------------------------------------------- merge_knowledge_bases
\* merge_knowledge_bases studied on its own: the arguments are drawn from
\* the knowledge bases below, the function is called once, and then once
\* more on its result with the same new data.
MaxServices == 2    \* longest services list of an argument

\* A field left out of a knowledge base.
Absent == [t |-> "absent", s |-> "", items |-> <<>>]

\* The dict holding the given entries, the absent ones left out.
KbWith(entries) == JDict(SelectSeq(entries, LAMBDA p : p.items[1] # Absent))

\* Every sequence over S of length at most n.
SeqsUpTo(S, n) == UNION {[1..k -> S] : k \in 0..n}

ServiceItems ==
    {Service(JStr("haircut"), JStr("1000")),
     Service(JStr("Haircut"), JStr("1200")),
     Service(JStr("manicure"), JStr("500"))}

\* services: left out, a list of {name, price}, or a name-to-price mapping.
ServicesValues ==
    {Absent, JDict(<<Pair("pedicure", JStr("700"))>>)}
        \cup {JList(xs) : xs \in SeqsUpTo(ServiceItems, MaxServices)}

\* prices and contacts of the stored knowledge base.
OldPricesValues == {Absent, JDict(<<Pair("haircut", JStr("1000"))>>)}

OldContactsValues == {Absent, JDict(<<Pair("phone", JStr("123"))>>)}

\* prices and contacts of the new data.
NewPricesValues ==
    {Absent, JStr("from 500"),
     JDict(<<Pair("haircut", JStr("1200")), Pair("manicure", JStr("500"))>>)}

NewContactsValues == {Absent, JDict(<<Pair("email", JStr("a@b.c"))>>)}

\* The other fields merge looks at: none of them, or a faq list, an about
\* text and a raw_data text.
ExtraFields ==
    {<<>>,
     <<Pair("faq", JList(<<JStr("q1")>>)), Pair("about", JStr("salon")),
       Pair("raw_data", JStr("text"))>>}

OldKbs ==
    {KbWith(<<Pair("services", sv), Pair("prices", pr), Pair("contacts", ct)>> \o ex) :
        sv \in ServicesValues, pr \in OldPricesValues, ct \in OldContactsValues,
        ex \in ExtraFields}

NewKbs ==
    {KbWith(<<Pair("services", sv), Pair("prices", pr), Pair("contacts", ct)>> \o ex) :
        sv \in ServicesValues, pr \in NewPricesValues, ct \in NewContactsValues,
        ex \in ExtraFields}

\* The handler at rest, as it is throughout the function specs.
HandlerIdle ==
    /\ users = {}
    /\ agents = <<>>
    /\ conversations = <<>>
    /\ req = [s \in Slots |-> IdleReq]
    /\ running = 0
    /\ nreq = 0
    /\ cleared = {}

NoMergeOutput == [merged |-> JNull, old_after |-> JNull, remerged |-> JNull]

InitMerge ==
    /\ HandlerIdle
    /\ fn_input \in [old_kb : OldKbs, new_data : NewKbs]
    /\ fn_output = NoMergeOutput
    /\ fn_step = "start"

\* merged = merge_knowledge_bases(old_kb, new_data)
Merge ==
    /\ fn_step = "start"
    /\ fn_output' =
         [NoMergeOutput EXCEPT
            !.merged = merge_knowledge_bases(fn_input.old_kb, fn_input.new_data),
            !.old_after = OldAfterMerge(fn_input.old_kb, fn_input.new_data)]
    /\ fn_step' = "merged"
    /\ UNCHANGED <<fn_input, handler_vars>>

\* merge_knowledge_bases(merged, new_data): the same data merged again.
MergeAgain ==
    /\ fn_step = "merged"
    /\ fn_output' =
         [fn_output EXCEPT
            !.remerged = merge_knowledge_bases(fn_output.merged, fn_input.new_data)]
    /\ fn_step' = "remerged"
    /\ UNCHANGED <<fn_input, handler_vars>>

NextMerge == Merge \/ MergeAgain

SpecMerge == InitMerge /\ [][NextMerge]_vars

\* The services of kb are a list, or kb has no services.
ServicesAreList(kb) == IsList(DictGet(kb, "services", JList(<<>>)))

\* The function-level part of C13: when the services of old and of new
\* are lists, the services of merge(old, new) begin with old's services,
\* each entry unchanged and in its position; the same holds after merging
\* the new data once more.
MergeKeepsOldServicesFirst ==
    (/\ fn_step # "start"
     /\ ServicesAreList(fn_input.old_kb)
     /\ ServicesAreList(fn_input.new_data))
    => /\ IsPrefix(ServicesOf(fn_input.old_kb), ServicesOf(fn_output.merged))
       /\ (fn_step = "remerged"
           => IsPrefix(ServicesOf(fn_input.old_kb), ServicesOf(fn_output.remerged)))

\* The name of a services entry, lower-cased.
NameOf(item) == LowerStrip(DictGet(item, "name", JStr("")).s)

\* No two entries of the list have names equal ignoring case.
NoDuplicateNames(services) ==
    \A i, j \in DOMAIN services :
        i # j => NameOf(services[i]) # NameOf(services[j])

\* C14: merge(old, new).services has no two entries whose names are equal
\* ignoring case: an entry of new whose name already occurs in old (or
\* earlier in new) is not appended to old's duplicate-free list.
C14_NoDuplicateNames ==
    (/\ fn_step # "start"
     /\ ServicesAreList(fn_input.old_kb)
     /\ ServicesAreList(fn_input.new_data)
     /\ NoDuplicateNames(ServicesOf(fn_input.old_kb)))
    => NoDuplicateNames(ServicesOf(fn_output.merged))

\* C15: merge never mutates its old argument: once merge(old, new) has
\* returned, old and every value nested in it equal what they were before
\* the call.
C15_OldIsNotMutated ==
    fn_step # "start" => fn_output.old_after = fn_input.old_kb

\* C16: merging the same new data again changes neither services nor
\* contacts nor prices: merge(merge(old, new), new) and merge(old, new)
\* agree on the three fields.
C16_RemergeIsIdempotent ==
    fn_step = "remerged"
    => \A key \in {"services", "contacts", "prices"} :
           DictGet(fn_output.remerged, key, Absent) = DictGet(fn_output.merged, key, Absent)

\* ----------------------------------------------- normalize_knowledge_base
\* normalize_knowledge_base studied on its own: the raw mapping is drawn
\* from the dicts below, normalized, and the result normalized again.
MaxEntries == 2     \* most entries of a raw mapping

\* Keys a reply may use: canonical, synonyms, other casings, deny-listed,
\* and a key the mapping does not know.
RawKeys == {"services", "Uslugi", "tovary", "prices", " Tseny ", "Style",
            "persona", "Notes"}

\* Values of an entry: scalars, a list mixing a name with a {name, price}
\* entry, a name-to-price mapping.
RawValues ==
    {JStr("haircut"), JNum("1000"), JNull, JList(<<>>),
     JList(<<JStr("haircut"), Service(JStr("manicure"), JStr("500"))>>),
     JDict(<<Pair("haircut", JStr("1000"))>>)}

\* The entries have pairwise different keys.
DistinctKeys(entries) ==
    \A i, j \in DOMAIN entries : i # j => entries[i].s # entries[j].s

RawKbs ==
    {JDict(entries) :
        entries \in {e \in SeqsUpTo({Pair(k, v) : k \in RawKeys, v \in RawValues},
                                   MaxEntries) : DistinctKeys(e)}}

NoNormalizeOutput == [once |-> JNull, twice |-> JNull]

InitNormalize ==
    /\ HandlerIdle
    /\ fn_input \in RawKbs
    /\ fn_output = NoNormalizeOutput
    /\ fn_step = "start"

\* knowledge_base = normalize_knowledge_base(raw_kb)
Normalize ==
    /\ fn_step = "start"
    /\ fn_output' = [NoNormalizeOutput EXCEPT !.once = normalize_knowledge_base(fn_input)]
    /\ fn_step' = "normalized"
    /\ UNCHANGED <<fn_input, handler_vars>>

\* normalize_knowledge_base applied to its own result.
NormalizeAgain ==
    /\ fn_step = "normalized"
    /\ fn_output' = [fn_output EXCEPT !.twice = normalize_knowledge_base(fn_output.once)]
    /\ fn_step' = "renormalized"
    /\ UNCHANGED <<fn_input, handler_vars>>

NextNormalize == Normalize \/ NormalizeAgain

SpecNormalize == InitNormalize /\ [][NextNormalize]_vars

\* C17: normalize is idempotent: for every raw mapping, whatever the
\* language and casing of its keys and the shape of its services and
\* prices, normalize(normalize(r)) equals normalize(r).
C17_NormalizeIsIdempotent ==
    fn_step = "renormalized" => DictEq(fn_output.twice, fn_output.once)

\* A raw mapping with services under a synonym key as a name-to-price
\* mapping and scalar prices has been normalized twice.
C17_Witness ==
    /\ fn_step = "renormalized"
    /\ IsDict(DictGet(fn_input, "Uslugi", JNull))
    /\ DictGet(fn_input, " Tseny ", JNull) = JNum("1000")
    /\ Keys(fn_output.once) = {"services", "prices"}
    /\ IsList(DictGet(fn_output.twice, "services", JNull))
    /\ IsDict(DictGet(fn_output.twice, "prices", JNull))

\* --------------------------------------------- the stored knowledge base
\* The knowledge base of one agent through a create request followed by
\* update requests handled one after another: what parse_agent_ready_response
\* builds is stored on create, and on update the stored value is replaced by
\* merge_knowledge_bases(stored, json.loads(DATA of the update block)).
MaxUpdates == 2     \* update requests after the create

\* DATA objects of the ready block: every raw mapping of at most one entry.
CreateData == {raw \in RawKbs : Len(raw.items) <= 1}

\* DATA objects of the update block: services as a list under the canonical
\* key, under a synonym key, and as a name-to-price mapping; synonym and
\* deny-listed keys; prices, contacts and a simple field.
UpdateData ==
    {OneService("manicure", "500"),
     JDict(<<Pair("Uslugi", JList(<<Service(JStr("manicure"), JStr("500"))>>))>>),
     JDict(<<Pair("services", JDict(<<Pair("pedicure", JStr("700"))>>))>>),
     JDict(<<Pair("style", JStr("formal")), Pair("persona_info", JStr("anna")),
             Pair("services", JList(<<Service(JStr("haircut"), JStr("1000"))>>))>>),
     JDict(<<Pair("kontakty", JDict(<<Pair("phone", JStr("123"))>>)),
             Pair("contacts", JDict(<<Pair("email", JStr("a@b.c"))>>))>>),
     JDict(<<Pair("prices", JDict(<<Pair("manicure", JStr("500"))>>)),
             Pair("about", JStr("salon"))>>)}

\* generate_seller_prompt (app.prompts): a pure template that renders every
\* populated field of the knowledge base, in whichever representation it
\* is present, into a section, and leaves out the empty ones; it has no side
\* effect and does not fail.
generate_seller_prompt(agent_name, business_type, knowledge_base) ==
    [agent_name |-> agent_name, business_type |-> business_type,
     sections |-> {k \in Keys(knowledge_base) :
                      Truthy(DictGet(knowledge_base, k, JNull))}]

NoStore ==
    [kb |-> JNull, before |-> JNull, updates |-> 0,
     system_prompt |-> generate_seller_prompt("", "", JDict(<<>>))]

InitStore ==
    /\ HandlerIdle
    /\ fn_input = JNull
    /\ fn_output = NoStore
    /\ fn_step = "start"

\* The create branch: knowledge_base = normalize_knowledge_base(raw_kb) is
\* stored on the new agent.
StoreCreate ==
    /\ fn_step = "start"
    /\ \E raw_kb \in CreateData :
        /\ fn_input' = raw_kb
        /\ fn_output' =
             [NoStore EXCEPT
                !.kb = normalize_knowledge_base(raw_kb),
                !.system_prompt = generate_seller_prompt("anna", "salon",
                                      normalize_knowledge_base(raw_kb))]
    /\ fn_step' = "created"
    /\ UNCHANGED handler_vars

\* The update branch: new_kb_data = json.loads(...) is merged into the
\* stored knowledge base as it is, the prompt is rendered from the result
\* and both are stored.
StoreUpdate ==
    /\ fn_step \in {"created", "updated"}
    /\ fn_output.updates < MaxUpdates
    /\ \E new_kb_data \in UpdateData :
        /\ fn_input' = new_kb_data
        /\ fn_output' =
             [kb |-> merge_knowledge_bases(fn_output.kb, new_kb_data),
              before |-> fn_output.kb,
              updates |-> fn_output.updates + 1,
              system_prompt |-> generate_seller_prompt("anna", "salon",
                                   merge_knowledge_bases(fn_output.kb, new_kb_data))]
    /\ fn_step' = "updated"
    /\ UNCHANGED handler_vars

NextStore == StoreCreate \/ StoreUpdate

SpecStore == InitStore /\ [][NextStore]_vars

\* C13: merge is additive-only on services, so after any sequence of
\* updates no service the agent once had is lost or altered: the stored
\* services list begins with the services stored before the update.
C13_NoServiceLostByUpdates ==
    (fn_step = "updated" /\ ServicesAreList(fn_output.before))
    => IsPrefix(ServicesOf(fn_output.before), ServicesOf(fn_output.kb))

\* The keys key_mapping translates into another key.
SynonymKeys == {k \in DOMAIN key_mapping : key_mapping[k] # k}

\* C18: after any sequence of create and update operations every key of the
\* stored knowledge base is canonical: it is no synonym key, it is in lower
\* case without surrounding blanks, and it is not deny-listed.
C18_StoredKeysAreCanonical ==
    fn_step # "start"
    => \A k \in Keys(fn_output.kb) :
           /\ k \notin SynonymKeys
           /\ LowerStrip(k) = k
           /\ k \notin {"style", "persona_info"}

\* An agent whose knowledge base held only services has been updated
\* twice, the second time with data carrying the deny-listed keys.
C18_Witness ==
    /\ fn_step = "updated"
    /\ HasKey(fn_input, "style")
    /\ Keys(fn_output.before) = {"services"}
    /\ Len(ServicesOf(fn_output.kb)) = 2
    /\ fn_output.updates = 2

\* C19: an update payload goes through the normalizer before the merge:
\* the services it gives under a synonym key or as a name-to-price mapping
\* are, as {name, price} objects, in the stored services list afterwards.
C19_UpdatePayloadIsNormalized ==
    fn_step = "updated"
    => /\ IsList(DictGet(fn_output.kb, "services", JList(<<>>)))
       /\ \A x \in Range(ServicesOf(normalize_knowledge_base(fn_input))) :
              x \in Range(ServicesOf(fn_output.kb))

\* ---------------------------------------------------- the ready protocol
\* The two readers of the ready signal studied on their own: the block form
\* read by parse_agent_ready_response for constructor_chat, and the bracket
\* form read by AgentManager.handle_constructor_message (agents.py).
READY_TAG == "[AGENT_READY]"

\* The words in which "]" occurs.
BracketCloseWords == {"]", READY_TAG}

\* re.search(r'\[TAG: ([^\]]+)\]', final_message): the positions of the tag
\* word that a "]" follows with at least one character in between.
TagMatches(text, tag) ==
    {k \in DOMAIN text :
        /\ text[k] = tag
        /\ LET stop == FirstIn(text, k + 1, BracketCloseWords)
           IN  stop # 0 /\ (stop > k + 1 \/ text[stop] = READY_TAG)}

\* match.group(1): the words up to the first "]".
TagValue(text, tag) ==
    LET k == MinOf(TagMatches(text, tag))
        stop == FirstIn(text, k + 1, BracketCloseWords)
    IN  JoinWords(SubSeq(text, k + 1, stop - 1))

\* AgentManager._create_agent raises ValueError("Missing required agent
\* data"): one of the three searches finds nothing.
CreateAgentRaises(final_message) ==
    \E tag \in {"[AGENT_NAME:", "[BUSINESS_TYPE:", "[KNOWLEDGE_BASE:"} :
        TagMatches(final_message, tag) = {}

\* The fields AgentManager._create_agent stores when it does not raise; the
\* knowledge base is kept as the text of the group.
create_agent(final_message) ==
    [ok |-> TRUE,
     agent_name |-> TagValue(final_message, "[AGENT_NAME:"),
     business_type |-> TagValue(final_message, "[BUSINESS_TYPE:"),
     knowledge_base |-> JStr(TagValue(final_message, "[KNOWLEDGE_BASE:"))]

\* DATA parts of a block: none, an object, a nested object on one line, a
\* nested object spread over several lines, an object holding a list, an
\* object followed by prose, and objects whose braces do not balance (one
\* closing brace short, none at all, one too many).
DataParts ==
    {<<>>,
     <<"DATA:", "{", "kv", "}", "\n">>,
     <<"DATA:", "{", "kv", "{", "kv", "}", "}", "\n">>,
     <<"DATA:", "{", "\n", "kv", "{", "kv", "}", "\n", "}", "\n">>,
     <<"DATA:", "{", "kv", "[", "kv", "]", "}", "\n">>,
     <<"DATA:", "{", "kv", "}", "word", "\n">>,
     <<"DATA:", "{", "kv", "{", "kv", "}", "\n">>,
     <<"DATA:", "{", "kv", "\n">>,
     <<"DATA:", "{", "kv", "}", "}", "\n">>}

\* Replies in block form: the marker, then NAME, TYPE and DATA lines, each
\* present or not, then the closing dashes or not; text may precede.
BlockTexts ==
    {pre \o <<READY_MARKER, "\n">> \o name \o type \o data \o close :
        pre \in {<<>>, <<"word", "\n">>},
        name \in {<<>>, <<"NAME:", "Anna", "\n">>},
        type \in {<<>>, <<"TYPE:", "salon", "\n">>},
        data \in DataParts,
        close \in {<<>>, <<"---">>}}

\* Replies in bracket form: the ready tag, then each field present or not;
\* the knowledge base may hold a list and may lack its closing bracket.
BracketTexts ==
    {pre \o <<READY_TAG>> \o name \o type \o kb :
        pre \in {<<>>, <<"word">>},
        name \in {<<>>, <<"[AGENT_NAME:", "Anna", "]">>},
        type \in {<<>>, <<"[BUSINESS_TYPE:", "salon", "]">>},
        kb \in {<<>>, <<"[KNOWLEDGE_BASE:", "{", "kv", "}", "]">>,
                <<"[KNOWLEDGE_BASE:", "{", "kv", "[", "kv", "]", "}", "]">>,
                <<"[KNOWLEDGE_BASE:", "{", "kv">>}}

\* Replies in update form: the marker, then the DATA part, then the
\* closing dashes or not; text may precede.
UpdateTexts ==
    {pre \o <<UPDATE_MARKER, "\n">> \o data \o close :
        pre \in {<<>>, <<"word", "\n">>},
        data \in DataParts,
        close \in {<<>>, <<"---">>}}

\* agent_data and outcome of the request, the DATA text that was isolated
\* and the knowledge base stored on the agent (None when none is stored).
NoParseOutput ==
    [agent_data |-> NoData, outcome |-> "none", data_str |-> <<>>,
     knowledge_base |-> JNull]

InitParse ==
    /\ HandlerIdle
    /\ fn_input \in ([form : {"block"}, text : BlockTexts \cup {<<"word">>}]
                     \cup [form : {"bracket"}, text : BracketTexts \cup {<<"word">>}]
                     \cup [form : {"update"}, text : UpdateTexts \cup {<<"word">>}])
    /\ fn_output = NoParseOutput
    /\ fn_step = "start"

\* constructor_chat in create mode once the reply is there: the agent is
\* created when parse_agent_ready_response returns agent data, otherwise the
\* reply is appended and the conversation continues.
HandleBlockReply ==
    /\ fn_step = "start"
    /\ fn_input.form = "block"
    /\ LET agent_data == parse_agent_ready_response(fn_input.text)
       IN  fn_output' = [agent_data |-> agent_data,
                         outcome |-> IF ShouldCreate(agent_data, FALSE)
                                     THEN "created" ELSE "continued",
                         data_str |-> ReadyDataStr(fn_input.text),
                         knowledge_base |-> IF ShouldCreate(agent_data, FALSE)
                                            THEN agent_data.knowledge_base
                                            ELSE JNull]
    /\ fn_step' = "handled"
    /\ UNCHANGED <<fn_input, handler_vars>>

\* AgentManager.handle_constructor_message once the reply is there: with the
\* ready tag in it _create_agent is called and its exception is not caught.
HandleBracketReply ==
    /\ fn_step = "start"
    /\ fn_input.form = "bracket"
    /\ fn_output' =
         IF \A i \in DOMAIN fn_input.text : fn_input.text[i] # READY_TAG
         THEN [NoParseOutput EXCEPT !.outcome = "continued"]
         ELSE IF CreateAgentRaises(fn_input.text)
         THEN [NoParseOutput EXCEPT !.outcome = "raised"]
         ELSE [NoParseOutput EXCEPT
                 !.agent_data = create_agent(fn_input.text),
                 !.outcome = "created",
                 !.knowledge_base = create_agent(fn_input.text).knowledge_base]
    /\ fn_step' = "handled"
    /\ UNCHANGED <<fn_input, handler_vars>>

\* constructor_chat in update mode once the reply is there, for an agent
\* whose knowledge base holds one service: the payload of the update block
\* is merged into it, json.loads may raise, and without a block the reply
\* is appended and the conversation continues.
HandleUpdateReply ==
    /\ fn_step = "start"
    /\ fn_input.form = "update"
    /\ LET update == parse_update_block(fn_input.text)
       IN  fn_output' =
             IF update.status = "no_match"
             THEN [NoParseOutput EXCEPT !.outcome = "continued"]
             ELSE IF update.status = "raises"
             THEN [NoParseOutput EXCEPT !.outcome = "raised",
                                         !.data_str = update.json_str]
             ELSE [NoParseOutput EXCEPT
                     !.outcome = "updated",
                     !.data_str = update.json_str,
                     !.knowledge_base =
                        merge_knowledge_bases(OneService("haircut", "1000"),
                                              UpdatePayload(fn_input.text))]
    /\ fn_step' = "handled"
    /\ UNCHANGED <<fn_input, handler_vars>>

NextParse == HandleBlockReply \/ HandleBracketReply \/ HandleUpdateReply

SpecParse == InitParse /\ [][NextParse]_vars

\* The text carries the word.
HasWord(text, w) == \E i \in DOMAIN text : text[i] = w

\* A ready marker is present but the block is malformed: NAME or TYPE is
\* missing, or DATA is missing or its braces do not balance.
MalformedReady(input) ==
    IF input.form = "block"
    THEN /\ HasWord(input.text, READY_MARKER)
         /\ \/ ~HasWord(input.text, "NAME:")
            \/ ~HasWord(input.text, "TYPE:")
            \/ ~HasWord(input.text, "DATA:")
            \/ Depth(input.text) # 0
    ELSE /\ HasWord(input.text, READY_TAG)
         /\ \/ ~HasWord(input.text, "[AGENT_NAME:")
            \/ ~HasWord(input.text, "[BUSINESS_TYPE:")
            \/ ~HasWord(input.text, "[KNOWLEDGE_BASE:")
            \/ Depth(input.text) # 0

\* C20: a protocol parse failure is never raised: when a ready marker is
\* present but the block is malformed, the result is "not ready", no agent
\* is created and the request continues the conversation, in the block form
\* and in the bracket form alike.
C20_MalformedReadyIsNotReady ==
    (fn_step = "handled" /\ MalformedReady(fn_input))
    => /\ ~fn_output.agent_data.ok
       /\ fn_output.outcome = "continued"

\* The part of C20 that the block form does satisfy: with balanced braces
\* a block lacking NAME, TYPE or DATA is "not ready".
MalformedBalancedBlockIsNotReady ==
    (fn_input.form = "block" /\ Depth(fn_input.text) = 0)
    => C20_MalformedReadyIsNotReady

\* ------------------------------------------------------- users and owners
\* C25: a chat request whose user_id is not yet known creates and commits
\* the user before any other processing: from the moment the request has
\* been received, whether it goes on or fails, a manual agent creation for
\* the same user_id finds the user and is not rejected.
C25_UnknownUserIsCreatedFirst ==
    \A s \in Slots :
        req[s].pc # "idle" => ~CreateAgentRejected(users, req[s].user_id)

\* C21: when the DATA text isolated from a ready block or from an update
\* block is not valid JSON, the request does not fail and the turn is not
\* discarded: the agent is created or updated, and the text is kept
\* verbatim under raw_data in the knowledge base stored on it.
C21_BadJsonIsKeptAsRawData ==
    (/\ fn_step = "handled"
     /\ fn_input.form \in {"block", "update"}
     /\ fn_output.data_str # <<>>
     /\ ~IsJson(fn_output.data_str))
    => /\ fn_output.outcome \in {"created", "updated"}
       /\ DictGet(fn_output.knowledge_base, "raw_data", Absent)
             = JStr(JoinWords(fn_output.data_str))

\* The half of C21 the code does satisfy: on create the text that is not
\* JSON is stored under raw_data.
BadJsonOnCreateIsKept ==
    fn_input.form = "block" => C21_BadJsonIsKeptAsRawData

\* The reply with the closing dashes put at its end.
Closed(text) == text \o <<"---">>

\* C22: the closing marker of a ready block is optional: a reply with the
\* ready marker and valid NAME, TYPE and DATA lines that ends without the
\* closing dashes yields the agent data of the same reply with the dashes.
C22_ClosingMarkerIsOptional ==
    (/\ fn_step = "handled"
     /\ fn_input.form = "block"
     /\ fn_input.text[Len(fn_input.text)] # "---"
     /\ parse_agent_ready_response(Closed(fn_input.text)).ok
     /\ IsJson(ReadyDataStr(Closed(fn_input.text))))
    => /\ fn_output.agent_data = parse_agent_ready_response(Closed(fn_input.text))
       /\ fn_output.outcome = "created"

\* The balanced object that starts at the first opening brace behind the
\* DATA label, empty when there is none.
BalancedObject(text) ==
    LET label == FirstIn(text, 1, {"DATA:"})
        open == IF label = 0 THEN 0 ELSE FirstIn(text, label + 1, {"{"})
        closes == {c \in (open + 1)..Len(text) : Depth(SubSeq(text, open, c)) = 0}
    IN  IF open = 0 \/ closes = {} THEN <<>>
        ELSE SubSeq(text, open, MinOf(closes))

\* C23: from a closed ready block with NAME and TYPE lines the parser
\* isolates as DATA exactly the balanced object that starts at the first
\* opening brace behind the DATA label, whatever its nesting and layout and
\* whatever follows it, and returns the knowledge base parsed from it.
C23_DataIsTheBalancedObject ==
    (/\ fn_step = "handled"
     /\ fn_input.form = "block"
     /\ ReadyBlock(fn_input.text).found
     /\ HasWord(fn_input.text, "NAME:")
     /\ HasWord(fn_input.text, "TYPE:")
     /\ BalancedObject(fn_input.text) # <<>>)
    => /\ fn_output.agent_data.ok
       /\ fn_output.data_str = BalancedObject(fn_input.text)
       /\ fn_output.agent_data.knowledge_base
             = KnowledgeBaseOfData(BalancedObject(fn_input.text))

\* The layouts of C23 the pattern does handle: an object, nested or not,
\* that ends its line and has no closing brace at an earlier line end.
OneLineObjectIsIsolated ==
    (/\ BalancedObject(fn_input.text) # <<>>
     /\ \A i \in DOMAIN BalancedObject(fn_input.text) :
           BalancedObject(fn_input.text)[i] # "\n"
     /\ \A i \in DOMAIN fn_input.text : fn_input.text[i] # "word"
     /\ Depth(fn_input.text) = 0)
    => C23_DataIsTheBalancedObject

\* The knowledge-base objects of C24: plain, and holding a list.
ReadyObjects == {<<"{", "kv", "}">>, <<"{", "kv", "[", "kv", "]", "}">>}

\* The reply carrying name Anna, type salon and the object in block form
\* and in bracket form.
BlockForm(data) ==
    <<READY_MARKER, "\n", "NAME:", "Anna", "\n", "TYPE:", "salon", "\n", "DATA:">>
        \o data \o <<"\n", "---">>

BracketForm(data) ==
    <<READY_TAG, "[AGENT_NAME:", "Anna", "]", "[BUSINESS_TYPE:", "salon", "]",
      "[KNOWLEDGE_BASE:">> \o data \o <<"]">>

\* C24: the bracket form and the block form are equivalent inputs: a reply
\* carrying a name, a type and a knowledge-base object in bracket form
\* yields the agent name, business type and structured knowledge base that
\* the reply carrying them in block form yields, also when the object
\* holds a list.
C24_BracketFormEqualsBlockForm ==
    \A data \in ReadyObjects :
        (fn_step = "handled" /\ fn_input.form = "bracket"
            /\ fn_input.text = BracketForm(data))
        => LET block == parse_agent_ready_response(BlockForm(data))
           IN  /\ block.ok /\ fn_output.agent_data.ok
               /\ fn_output.agent_data.agent_name = block.agent_name
               /\ fn_output.agent_data.business_type = block.business_type
               /\ fn_output.agent_data.knowledge_base = block.knowledge_base

\* What the two forms do agree on: the business type.
BracketFormKeepsBusinessType ==
    \A data \in ReadyObjects :
        (fn_step = "handled" /\ fn_input.form = "bracket"
            /\ fn_input.text = BracketForm(data))
        => /\ fn_output.outcome = "created"
           /\ fn_output.agent_data.business_type
                 = parse_agent_ready_response(BlockForm(data)).business_type

\* C26: no request both creates and updates: when the reply arrives, a
\* request in update mode creates no agent and does not report one
\* created, whatever the reply holds; a request in create mode leaves every
\* existing agent as it is and does not report one updated; and no response
\* has agent_created and agent_updated both true.
C26_CreateXorUpdate ==
    [][\A s \in Slots :
          Returned(s)
          => /\ req[s].update_mode
                  => /\ DOMAIN agents' = DOMAIN agents
                     /\ ~req'[s].response.agent_created
             /\ ~req[s].update_mode
                  => /\ \A a \in DOMAIN agents : agents'[a] = agents[a]
                     /\ ~req'[s].response.agent_updated
             /\ ~(req'[s].response.agent_created
                     /\ req'[s].response.agent_updated)]_vars

\* A request in update mode was answered with a well-formed ready block:
\* the reply was appended and the one agent is still the only one.
C26_Witness ==
    \E s \in Slots :
        /\ req[s].pc = "done"
        /\ req[s].update_mode
        /\ req[s].result = "ready"
        /\ req[s].outcome = "continued"
        /\ ~req[s].response.agent_created
        /\ Cardinality(DOMAIN agents) = 1

\* --------------------------------------------------------- two clients
\* The handler serving two clients: after a restart the database holds u1
\* with one agent, and u2 either unknown or with an agent of their own.
OwnerIds == {"u1", "u2"}

OwnerMessages == {<<"hi">>, <<"urls">>}

InitOwners ==
    /\ \/ /\ users = {"u1"}
          /\ agents = <<[user_id |-> "u1", knowledge_base |-> OneService("haircut", "1000")]>>
       \/ /\ users = {"u1", "u2"}
          /\ agents = <<[user_id |-> "u1", knowledge_base |-> OneService("haircut", "1000")],
                        [user_id |-> "u2", knowledge_base |-> OneService("manicure", "500")]>>
    /\ conversations = <<>>
    /\ req = [s \in Slots |-> IdleReq]
    /\ running = 0
    /\ nreq = 0
    /\ cleared = {}
    /\ fn_input = <<>>
    /\ fn_output = <<>>
    /\ fn_step = "off"

ReceiveOwners(s) ==
    \E user_id \in OwnerIds, agent_id \in 0..NewAgentId(agents),
       contents \in OwnerMessages :
        ReceiveRequest(s, MaxReq, user_id, agent_id, contents)

NextOwners ==
    \E s \in Slots :
        \/ ReceiveOwners(s)
        \/ AppendMessages(s)
        \/ AddContext(s)
        \/ CheckUrl(s)
        \/ ExtractReturn(s)
        \/ BuildPrompt(s)
        \/ CompletionReturn(s)
        \/ Respond(s)

SpecOwners == InitOwners /\ [][NextOwners]_vars

\* The request names an agent that does not exist or is not the user's.
NamesForeignAgent(ags, user_id, agent_id) ==
    agent_id # 0 /\ agent_id \notin AgentsOf(ags, user_id)

\* In this step: an agent changes only when a request of its owner gets
\* its reply; a request naming a foreign agent (of any user, or of the
\* known users only) is answered with 404 at once, leaving histories and
\* agents alone, and does nothing afterwards but return.
ForeignAgentIsRejected(known_only) ==
    /\ \A a \in DOMAIN agents :
          agents'[a] # agents[a]
          => \E s \in Slots : Returned(s) /\ req[s].user_id = agents[a].user_id
    /\ \A s \in Slots, user_id \in OwnerIds, agent_id \in 1..NewAgentId(agents),
          contents \in OwnerMessages :
          (/\ ReceiveRequest(s, MaxReq, user_id, agent_id, contents)
           /\ NamesForeignAgent(agents, user_id, agent_id)
           /\ known_only => user_id \in users)
          => /\ req'[s].pc = "done"
             /\ req'[s].response.status = 404
             /\ req'[s].messages = <<>>
             /\ conversations' = conversations
             /\ agents' = agents
    /\ \A s \in Slots :
          (/\ req[s].pc = "done"
           /\ NamesForeignAgent(agents, req[s].user_id, req[s].agent_id)
           /\ req'[s] # req[s])
          => /\ req'[s] = IdleReq
             /\ conversations' = conversations
             /\ agents' = agents

\* C27: the constructor only ever modifies an agent owned by the requesting
\* user: a request naming an agent_id that does not exist or belongs to
\* another user fails with 404 before any history is created or changed
\* and before any completion call, and leaves every agent unchanged.
C27_OnlyOwnAgentIsModified == [][ForeignAgentIsRejected(FALSE)]_vars

\* The part of C27 that holds: for a user the database knows.
KnownUserForeignAgentIs404 == [][ForeignAgentIsRejected(TRUE)]_vars

\* C28: once a create or an update has cleared a key's history, the history
\* stays empty until the next incoming request appends its user message;
\* a request that was in flight when the clear happened appends nothing to
\* it, so no history starts with an assistant turn.
C28_ClearedHistoryStaysEmpty ==
    /\ \A k \in cleared : HistoryOf(conversations, k) = <<>>
    /\ \A k \in DOMAIN conversations :
          conversations[k] # <<>> => conversations[k][1].role # "assistant"

\* The newest agent of the user (the greatest id).
NewestAgent(ags, user_id) ==
    CHOOSE a \in AgentsOf(ags, user_id) : \A b \in AgentsOf(ags, user_id) : b <= a

\* The plain key of a user: the key of the requests that name no agent.
PlainKey(user_id) == ConversationKey(user_id, 0)

\* C29: a request without agent_id whose last message carries an update
\* keyword, sent by a user owning an agent, runs in update mode against the
\* user's most recently created agent under the key user_id:agent_id; no
\* step of it changes the history of the plain user_id key, and its prompt
\* is the meta-instruction followed by the history of the key
\* user_id:agent_id, not of the plain key.
C29_KeywordUpdateUsesAgentKey ==
    [][\A s \in Slots :
          /\ \A user_id \in UserIds, contents \in RequestMessages :
                (/\ ReceiveRequest(s, MaxReq, user_id, 0, contents)
                 /\ HasUpdateKeyword(contents[Len(contents)])
                 /\ AgentsOf(agents, user_id) # {})
                => /\ req'[s].pc = "append"
                   /\ req'[s].update_mode
                   /\ req'[s].existing_agent.id = NewestAgent(agents, user_id)
                   /\ req'[s].conversation_key
                         = ConversationKey(user_id, NewestAgent(agents, user_id))
                   /\ req'[s].conversation_key # PlainKey(user_id)
          /\ (req[s].update_mode /\ req'[s] # req[s])
                => HistoryOf(conversations', PlainKey(req[s].user_id))
                      = HistoryOf(conversations, PlainKey(req[s].user_id))
          /\ (/\ req[s].update_mode
              /\ req[s].pc = "build"
              /\ req'[s].pc = "completion_wait")
                => req'[s].messages
                      = <<META_AGENT_PROMPT>>
                           \o conversations[ConversationKey(req[s].user_id,
                                                            req[s].existing_agent.id)]]_vars

\* A keyword request is waiting for its completion in update mode under
\* the key of the user's agent, while the plain key holds the turns of an
\* earlier conversation, none of which is in the prompt.
C29_Witness ==
    \E s \in Slots :
        /\ req[s].pc = "completion_wait"
        /\ req[s].update_mode
        /\ HasUpdateKeyword(LastContent(req[s].req_messages))
        /\ req[s].existing_agent.id = NewestAgent(agents, req[s].user_id)
        /\ req[s].conversation_key
              = ConversationKey(req[s].user_id, req[s].existing_agent.id)
        /\ Len(HistoryOf(conversations, PlainKey(req[s].user_id))) >= 2
        /\ Len(req[s].messages) >= 3
        /\ \A i \in DOMAIN conversations[PlainKey(req[s].user_id)] :
               conversations[PlainKey(req[s].user_id)][i] \notin Range(req[s].messages)

\* The same request when the user owns two agents: it runs against the
\* newer one.
KeywordUpdateOfNewerAgent ==
    \E s \in Slots :
        /\ req[s].pc = "completion_wait"
        /\ req[s].update_mode
        /\ HasUpdateKeyword(LastContent(req[s].req_messages))
        /\ Cardinality(AgentsOf(agents, req[s].user_id)) = 2
        /\ req[s].conversation_key = ConversationKey(req[s].user_id, 2)

\* ------------------------------------------ the fields merge looks at
\* merge_knowledge_bases on knowledge bases that carry, besides the fields
\* it merges, keys it does not know: each field is present or left out.
FrameOldKbs ==
    {KbWith(<<Pair("notes", no), Pair("advantages", ad), Pair("services", sv),
              Pair("about", ab)>>) :
        no \in {Absent, JStr("vip")},
        ad \in {Absent, JList(<<JStr("fast")>>)},
        sv \in {Absent, JList(<<Service(JStr("haircut"), JStr("1000"))>>)},
        ab \in {Absent, JStr("salon")}}

FrameNewKbs ==
    {KbWith(<<Pair("advantages", ad), Pair("objections", ob),
              Pair("additional_info", ai), Pair("services", sv),
              Pair("website", ws), Pair("raw_data", rd)>>) :
        ad \in {Absent, JStr("cheap")},
        ob \in {Absent, JList(<<JStr("far")>>)},
        ai \in {Absent, JDict(<<Pair("parking", JStr("yes"))>>)},
        sv \in {Absent, JList(<<Service(JStr("manicure"), JStr("500"))>>)},
        ws \in {Absent, JStr("salon.example")},
        rd \in {Absent, JStr("text")}}

InitFrame ==
    /\ HandlerIdle
    /\ fn_input \in [old_kb : FrameOldKbs, new_data : FrameNewKbs]
    /\ fn_output = NoMergeOutput
    /\ fn_step = "start"

SpecFrame == InitFrame /\ [][NextMerge]_vars

\* The fields merge_knowledge_bases takes from the new data.
MergedFields ==
    {"business_type", "website", "about", "services", "prices", "contacts",
     "faq", "raw_data"}

\* The entries of the dict under the given keys.
Restrict(d, keys) == JDict(SelectSeq(d.items, LAMBDA p : p.s \in keys))

\* C30: merge takes from new only the fields business_type, website, about,
\* services, prices, contacts, faq and raw_data: every other key of old is
\* in the result with old's value, no other key of new gets into the
\* result, and the result is what merging only those fields of new gives.
C30_MergeTakesKnownFieldsOnly ==
    fn_step # "start"
    => /\ \A k \in Keys(fn_input.old_kb) \ MergedFields :
              DictGet(fn_output.merged, k, Absent) = DictGet(fn_input.old_kb, k, Absent)
       /\ \A k \in Keys(fn_output.merged) \ MergedFields : k \in Keys(fn_input.old_kb)
       /\ fn_output.merged
             = merge_knowledge_bases(fn_input.old_kb,
                                     Restrict(fn_input.new_data, MergedFields))

\* Old and new both carry advantages, old carries notes and new carries
\* objections, services and a website: the merge kept old's advantages and
\* notes, took the services and the website, and left objections out.
C30_Witness ==
    /\ fn_step = "merged"
    /\ DictGet(fn_input.old_kb, "advantages", Absent) = JList(<<JStr("fast")>>)
    /\ DictGet(fn_input.new_data, "advantages", Absent) = JStr("cheap")
    /\ HasKey(fn_input.old_kb, "notes")
    /\ HasKey(fn_input.new_data, "objections")
    /\ DictGet(fn_output.merged, "advantages", Absent) = JList(<<JStr("fast")>>)
    /\ DictGet(fn_output.merged, "notes", Absent) = JStr("vip")
    /\ Len(ServicesOf(fn_output.merged)) = 2
    /\ HasKey(fn_output.merged, "website")
    /\ ~HasKey(fn_output.merged, "objections")

====
